---- MODULE Spec2Model ----
(***************************************************************************)
(* ServerSideLiveVoiceClient (HTTP/SSE live voice client) together with    *)
(* the browser objects it drives (EventSource, MediaRecorder, timers,      *)
(* FileReader, fetch) and the SessionManager it talks to.                  *)
(***************************************************************************)
EXTENDS Integers, Sequences, FiniteSets, TLC

\* ------------------------------------------------------------------ bounds
MaxSessions == 2      \* sessions the server may allocate
MaxStreams == 3       \* EventSource objects alive (not yet collected) at once
MaxMedia == 2         \* input streams getUserMedia may grant
MaxRequests == 2      \* text/audio submissions
MaxEndCalls == 2      \* end() calls awaiting their fetch at once
MaxTimers == 2        \* reconnect timers pending at once
AttemptBudget == 2    \* attempt budget the reconnection claims speak of
MaxStops == 2         \* saturation of the per-stream count of track stops
MaxUtterances == 2    \* recordings started
MaxTurnSessions == 1  \* sessions created where Turns are studied
MaxTurnUtterances == 1 \* recordings started where Turns are studied
MaxLifeSessions == 1  \* sessions created where the life cycle is studied

\* ------------------------------------------------------- program constants
ReconnectDelayMs == 3000
FrameMs == 100            \* audio is captured in frames of this length
MinSpeechMs == 500        \* minimum sustained-speech duration
TrailingSilenceMs == 700  \* trailing-silence timeout
HighMs == 600             \* the audio trace: energy above the threshold ...
LowMs == 800              \* ... then below it
HeartbeatInterval == 1
HeartbeatMultiple == 3

Null == 0

VARIABLES
    sessionId,      \* this.sessionId (Null for null/undefined)
    eventSource,    \* this.eventSource: a slot of streams, or Null
    isActive,       \* this.isActive
    mediaRecorder,  \* this.mediaRecorder: an index of media, or Null
    audioChunks,    \* this.audioChunks
    streams,        \* the EventSource objects
    media,          \* the input streams granted by getUserMedia
    recEvents,      \* MediaRecorder events queued and not yet dispatched
    timers,         \* pending setTimeout callbacks of reconnect()
    initCall,       \* the initialize() call in progress and the last result
    endCalls,       \* end() calls suspended at their fetch
    reqs,           \* text/audio submissions and their progress
    srvSessions,    \* SessionManager: ids of the live sessions
    srvCreated,     \* SessionManager: number of ids allocated
    srvTurn,        \* SessionManager: the Turn in flight of each session
    delays,         \* delays of the consecutive failed reconnection attempts
    silence,        \* time since the last heartbeat on the current stream
    utterances,     \* number of recordings started
    srvLog,         \* SessionManager: the Message log of each session
    srvQueue,       \* SessionManager: events not yet pushed, per session
    handled         \* events handleServerMessage received, and what it did

vars == <<sessionId, eventSource, isActive, mediaRecorder, audioChunks,
          streams, media, recEvents, timers, initCall, endCalls, reqs,
          srvSessions, srvCreated, srvTurn, delays, silence, utterances,
          srvLog, srvQueue, handled>>

SessionIds == 1..MaxSessions
StreamSlots == 1..MaxStreams
SilenceLimit == HeartbeatMultiple * HeartbeatInterval

Min(a, b) == IF a < b THEN a ELSE b

FreeStream == [sid |-> Null, rs |-> "none", reconnect |-> FALSE, lost |-> Null]

\* constructor
Init ==
    /\ sessionId = Null
    /\ eventSource = Null
    /\ isActive = FALSE
    /\ mediaRecorder = Null
    /\ audioChunks = <<>>
    /\ streams = [i \in StreamSlots |-> FreeStream]
    /\ media = <<>>
    /\ recEvents = <<>>
    /\ timers = <<>>
    /\ initCall = [pc |-> "idle", create |-> "none", result |-> "none"]
    /\ endCalls = <<>>
    /\ reqs = <<>>
    /\ srvSessions = {}
    /\ srvCreated = 0
    /\ srvTurn = [s \in SessionIds |-> Null]
    /\ delays = <<>>
    /\ silence = 0
    /\ utterances = 0
    /\ srvLog = [s \in SessionIds |-> <<>>]
    /\ srvQueue = [s \in SessionIds |-> <<>>]
    /\ handled = <<>>

\* A closed EventSource nothing refers to any more is garbage.
Collect(strs, ref) ==
    [i \in StreamSlots |->
        IF strs[i].rs = "closed" /\ i # ref THEN FreeStream ELSE strs[i]]

LowestFree(strs) ==
    CHOOSE i \in StreamSlots :
        /\ strs[i].rs = "none"
        /\ \A j \in StreamSlots : strs[j].rs = "none" => i <= j

\* A stream can be constructed: the slot of a closed stream that the new one
\* replaces as this.eventSource is free for it.
HasFreeSlot == \E i \in StreamSlots : Collect(streams, Null)[i].rs = "none"
FreeSlot == LowestFree(Collect(streams, Null))

\* setupEventStream: the EventSource objects after the call
SetupEventStreamStreams(sid, byReconnect, lostSid) ==
    IF sid = Null THEN streams
    ELSE [Collect(streams, Null) EXCEPT ![FreeSlot] =
             [sid |-> sid, rs |-> "connecting",
              reconnect |-> byReconnect, lost |-> lostSid]]

\* setupEventStream: this.eventSource after the call
SetupEventStreamRef(sid) == IF sid = Null THEN eventSource ELSE FreeSlot

\* ------------------------------------------------------------ initialize()
\* SessionManager.create: a fresh id
SrvCreateId == srvCreated + 1

CreateOutcomes == {"ok", "error_json", "network_error"}
MediaOutcomes == {"granted", "ctor_throws", "denied"}

\* initialize() up to the fetch of session/create
InitializeCall ==
    /\ initCall.pc = "idle"
    /\ initCall' = [pc |-> "await_create", create |-> "none", result |-> "none"]
    /\ UNCHANGED <<srvLog, srvQueue, handled,
                   sessionId, eventSource, isActive, mediaRecorder, audioChunks,
                   streams, media, recEvents, timers, endCalls, reqs,
                   srvSessions, srvCreated, srvTurn, delays, silence, utterances>>

\* initialize() from the create response to the call of getUserMedia:
\* this.sessionId = data.session_id; setupEventStream(); setupAudioCapture().
\* A rejected fetch (or response.json()) goes to the catch block: showError,
\* return false.
InitializeCreated(outcome) ==
    /\ initCall.pc = "await_create"
    /\ outcome = "ok" => srvCreated < MaxSessions /\ HasFreeSlot
    /\ LET sid == IF outcome = "ok" THEN SrvCreateId ELSE Null IN
       IF outcome = "network_error"
       THEN /\ initCall' = [pc |-> "idle", create |-> outcome,
                            result |-> "false"]
            /\ UNCHANGED <<sessionId, streams, eventSource, srvCreated,
                           srvSessions, silence>>
       ELSE /\ srvCreated' = IF outcome = "ok" THEN SrvCreateId ELSE srvCreated
            /\ srvSessions' = IF outcome = "ok"
                              THEN srvSessions \cup {SrvCreateId}
                              ELSE srvSessions
            /\ sessionId' = sid
            /\ streams' = SetupEventStreamStreams(sid, FALSE, Null)
            /\ eventSource' = SetupEventStreamRef(sid)
            /\ silence' = IF sid # Null THEN 0 ELSE silence
            /\ initCall' = [pc |-> "await_media", create |-> outcome,
                            result |-> "none"]
    /\ UNCHANGED <<srvLog, srvQueue, handled,
                   isActive, mediaRecorder, audioChunks, media, recEvents,
                   timers, endCalls, reqs, srvTurn, delays, utterances>>

\* setupAudioCapture() from the answer of getUserMedia, and the rest of
\* initialize().  When new MediaRecorder(stream, ...) throws, the stream is
\* held by a local of setupAudioCapture only.
InitializeMedia(outcome) ==
    /\ initCall.pc = "await_media"
    /\ outcome # "denied" => Len(media) < MaxMedia
    /\ media' = IF outcome = "denied" THEN media
                ELSE Append(media,
                        [live |-> TRUE, stops |-> 0, utt |-> 0, cut |-> {},
                         t |-> 0, from |-> 0, spans |-> <<>>,
                         rec |-> IF outcome = "granted" THEN "inactive"
                                 ELSE "none"])
    /\ mediaRecorder' = IF outcome = "granted" THEN Len(media) + 1
                        ELSE mediaRecorder
    /\ isActive' = IF outcome = "granted" THEN TRUE ELSE isActive
    /\ initCall' = [initCall EXCEPT
                       !.pc = "idle",
                       !.result = IF outcome = "granted" THEN "true"
                                  ELSE "false"]
    /\ UNCHANGED <<srvLog, srvQueue, handled,
                   sessionId, eventSource, audioChunks, streams, recEvents,
                   timers, endCalls, reqs, srvSessions, srvCreated, srvTurn,
                   delays, silence, utterances>>

\* ---------------------------------------------------------- push stream
\* reconnect(): the delay of the timer it sets
ReconnectDelay(attempt) == ReconnectDelayMs

\* eventSource.onerror, run when a stream fires error; strs are the streams
\* at that moment.  The handler looks at this.eventSource, whichever stream
\* fired; with this.eventSource null it throws and does nothing.
OnErrorReconnects(strs) ==
    eventSource # Null /\ strs[eventSource].rs = "closed"

OnErrorTimers(strs) ==
    IF OnErrorReconnects(strs)
    THEN Append(timers, [lost |-> strs[eventSource].sid,
                         delay |-> ReconnectDelay(Len(delays) + 1)])
    ELSE timers

\* The browser established the connection of EventSource i.
StreamOpen(i) ==
    /\ streams[i].rs = "connecting"
    /\ streams[i].sid \in srvSessions
    /\ streams' = [streams EXCEPT ![i].rs = "open"]
    /\ delays' = <<>>
    /\ silence' = IF i = eventSource THEN 0 ELSE silence
    /\ UNCHANGED <<srvLog, srvQueue, handled,
                   sessionId, eventSource, isActive, mediaRecorder, audioChunks,
                   media, recEvents, timers, initCall, endCalls, reqs,
                   srvSessions, srvCreated, srvTurn, utterances>>

\* The connection of EventSource i dropped: the browser re-establishes it
\* (readyState CONNECTING) and fires error.
StreamDrop(i) ==
    /\ streams[i].rs = "open"
    /\ LET strs == [streams EXCEPT ![i].rs = "connecting"] IN
          /\ OnErrorReconnects(strs) => Len(timers) < MaxTimers
          /\ streams' = strs
          /\ timers' = OnErrorTimers(strs)
    /\ silence' = IF i = eventSource THEN 0 ELSE silence
    /\ UNCHANGED <<srvLog, srvQueue, handled,
                   sessionId, eventSource, isActive, mediaRecorder, audioChunks,
                   media, recEvents, initCall, endCalls, reqs,
                   srvSessions, srvCreated, srvTurn, delays, utterances>>

\* The connection of EventSource i failed for good (readyState CLOSED); the
\* browser fires error.
StreamFail(i) ==
    /\ streams[i].rs = "connecting"
    /\ LET strs == [streams EXCEPT ![i].rs = "closed"] IN
          /\ OnErrorReconnects(strs) => Len(timers) < MaxTimers
          /\ streams' = Collect(strs, eventSource)
          /\ timers' = OnErrorTimers(strs)
    /\ UNCHANGED <<srvLog, srvQueue, handled,
                   sessionId, eventSource, isActive, mediaRecorder, audioChunks,
                   media, recEvents, initCall, endCalls, reqs,
                   srvSessions, srvCreated, srvTurn, delays, silence, utterances>>

\* The timer of reconnect() fires: setupEventStream()
ReconnectTimer ==
    /\ timers # <<>>
    /\ sessionId # Null => HasFreeSlot
    /\ streams' = SetupEventStreamStreams(sessionId, TRUE, Head(timers).lost)
    /\ eventSource' = SetupEventStreamRef(sessionId)
    /\ timers' = Tail(timers)
    /\ delays' = IF sessionId # Null /\ Len(delays) <= AttemptBudget
                 THEN Append(delays, Head(timers).delay) ELSE delays
    /\ silence' = IF sessionId # Null THEN 0 ELSE silence
    /\ UNCHANGED <<srvLog, srvQueue, handled,
                   sessionId, isActive, mediaRecorder, audioChunks,
                   media, recEvents, initCall, endCalls, reqs,
                   srvSessions, srvCreated, srvTurn, utterances>>

\* --------------------------------------------------------------- recording
ChunkSizes == {0, 1}

\* The spans of the audio trace recorder m has recorded, once the recording
\* in progress (if any) ends
SpansAtStop(m) ==
    IF media[m].rec = "recording"
    THEN Append(media[m].spans, [from |-> media[m].from, to |-> media[m].t])
    ELSE media[m].spans

\* MediaRecorder.stop(): the recorder is inactive at once and queues one
\* task that fires dataavailable (all the data captured) and then stop
RecorderStopped(m) ==
    [media EXCEPT ![m].rec = "inactive", ![m].spans = SpansAtStop(m)]

RecorderStopEvents(m, size) ==
    <<[type |-> "data", rec |-> m, utt |-> media[m].utt, size |-> size],
      [type |-> "stop", rec |-> m, utt |-> media[m].utt, size |-> 0]>>

\* startRecording() past its guard: this.audioChunks = [] and
\* mediaRecorder.start(), which throws on a stream whose tracks have ended
StartRecording ==
    /\ mediaRecorder # Null
    /\ media[mediaRecorder].rec = "inactive"
    /\ media[mediaRecorder].live => utterances < MaxUtterances
    /\ audioChunks' = <<>>
    /\ IF media[mediaRecorder].live
       THEN /\ utterances' = utterances + 1
            /\ media' = [media EXCEPT ![mediaRecorder].rec = "recording",
                                      ![mediaRecorder].utt = utterances + 1,
                                      ![mediaRecorder].from =
                                          media[mediaRecorder].t]
       ELSE UNCHANGED <<utterances, media>>
    /\ UNCHANGED <<srvLog, srvQueue, handled,
                   sessionId, eventSource, isActive, mediaRecorder, streams,
                   recEvents, timers, initCall, endCalls, reqs, srvSessions,
                   srvCreated, srvTurn, delays, silence>>

\* The input stream m delivers the next frame of the audio trace.  Nothing
\* in the client looks at the energy of the audio.
AudioFrame(m) ==
    /\ m \in 1..Len(media)
    /\ media[m].live
    /\ media[m].t < HighMs + LowMs
    /\ media' = [media EXCEPT ![m].t = @ + FrameMs]
    /\ UNCHANGED <<srvLog, srvQueue, handled,
                   sessionId, eventSource, isActive, mediaRecorder, audioChunks,
                   streams, recEvents, timers, initCall, endCalls, reqs,
                   srvSessions, srvCreated, srvTurn, delays, silence,
                   utterances>>

\* stopRecording() returning true
StopRecording(size) ==
    /\ mediaRecorder # Null
    /\ media[mediaRecorder].rec = "recording"
    /\ media' = RecorderStopped(mediaRecorder)
    /\ recEvents' = recEvents \o RecorderStopEvents(mediaRecorder, size)
    /\ UNCHANGED <<srvLog, srvQueue, handled,
                   sessionId, eventSource, isActive, mediaRecorder, audioChunks,
                   streams, timers, initCall, endCalls, reqs, srvSessions,
                   srvCreated, srvTurn, delays, silence, utterances>>

\* mediaRecorder.ondataavailable(event): this.audioChunks after it
OnDataAvailable(chunks, ev) ==
    IF ev.size > 0 THEN Append(chunks, ev.utt) ELSE chunks

\* sendAudioToServer(blob) up to reader.readAsDataURL: the submissions after
\* the call.  utt and captured record the recording the stop event belongs
\* to and the amount of audio it captured.
SendAudioToServerReqs(blob, utt, captured) ==
    IF sessionId = Null THEN reqs
    ELSE Append(reqs, [kind |-> "audio", sid |-> Null, atCall |-> sessionId,
                       st |-> "reading", res |-> "none", blob |-> blob,
                       overlap |-> FALSE, shown |-> FALSE,
                       reported |-> FALSE, utt |-> utt,
                       captured |-> captured])

\* mediaRecorder.onstop up to its await: the chunks it leaves behind
OnStopChunksKept(chunks) == chunks

OnStopChunks(chunks) == <<>>

\* The task a stopped recorder queued runs: it fires dataavailable and then
\* stop, so ondataavailable and onstop run back to back.
OnStop ==
    /\ Len(recEvents) >= 2
    /\ Head(recEvents).type = "data"
    /\ sessionId # Null => Len(reqs) < MaxRequests
    /\ LET blob == OnDataAvailable(audioChunks, Head(recEvents)) IN
          /\ audioChunks' = OnStopChunks(blob)
          /\ reqs' = SendAudioToServerReqs(blob, Head(recEvents).utt,
                                           Head(recEvents).size)
    /\ recEvents' = Tail(Tail(recEvents))
    /\ UNCHANGED <<srvLog, srvQueue, handled,
                   sessionId, eventSource, isActive, mediaRecorder, streams,
                   media, timers, initCall, endCalls, srvSessions,
                   srvCreated, srvTurn, delays, silence, utterances>>

\* reader.onloadend up to the fetch of session/${this.sessionId}/audio
ReaderLoadEnd(r) ==
    /\ reqs[r].st = "reading"
    /\ reqs' = [reqs EXCEPT ![r].st = "sent", ![r].sid = sessionId]
    /\ UNCHANGED <<srvLog, srvQueue, handled,
                   sessionId, eventSource, isActive, mediaRecorder, audioChunks,
                   streams, media, recEvents, timers, initCall, endCalls,
                   srvSessions, srvCreated, srvTurn, delays, silence,
                   utterances>>

\* ------------------------------------------------------------- submissions
\* sendTextMessage(text), text not blank, up to the fetch of session/../text
SendTextMessage ==
    /\ sessionId # Null
    /\ Len(reqs) < MaxRequests
    /\ reqs' = Append(reqs, [kind |-> "text", sid |-> sessionId,
                             atCall |-> sessionId, st |-> "sent",
                             res |-> "none", blob |-> <<>>,
                             overlap |-> FALSE, shown |-> FALSE,
                             reported |-> FALSE, utt |-> 0,
                             captured |-> 0])
    /\ UNCHANGED <<srvLog, srvQueue, handled,
                   sessionId, eventSource, isActive, mediaRecorder, audioChunks,
                   streams, media, recEvents, timers, initCall, endCalls,
                   srvSessions, srvCreated, srvTurn, delays, silence,
                   utterances>>

\* SessionManager.submit: what becomes of an input for session sid
SrvSubmitNoTurnCheck(sid) ==
    IF sid \notin srvSessions THEN "SessionNotFound" ELSE "accepted"

SrvSubmit(sid) ==
    IF sid \notin srvSessions THEN "SessionNotFound"
    ELSE IF srvTurn[sid] # Null THEN "TurnInProgress"
    ELSE "accepted"

\* The submissions whose Turn is in flight for session sid
TurnsInFlight(sid) ==
    {q \in 1..Len(reqs) : reqs[q].st = "processing" /\ reqs[q].sid = sid}

\* The request of submission r reaches SessionManager.submit; overlap
\* records that it did so while a Turn of its session was in flight.
ServerSubmit(r) ==
    /\ reqs[r].st = "sent"
    /\ LET over == TurnsInFlight(reqs[r].sid) # {} IN
       IF SrvSubmit(reqs[r].sid) = "accepted"
       THEN /\ srvTurn' = [srvTurn EXCEPT ![reqs[r].sid] = r]
            /\ reqs' = [reqs EXCEPT ![r].st = "processing",
                                    ![r].overlap = over]
       ELSE /\ reqs' = [reqs EXCEPT ![r].st = "responded",
                                    ![r].res = SrvSubmit(reqs[r].sid),
                                    ![r].overlap = over]
            /\ UNCHANGED srvTurn
    /\ UNCHANGED <<srvLog, srvQueue, handled,
                   sessionId, eventSource, isActive, mediaRecorder, audioChunks,
                   streams, media, recEvents, timers, initCall, endCalls,
                   srvSessions, srvCreated, delays, silence, utterances>>

\* ------------------------------------------------------------ push events
\* Message: the sequence number of the next Message of a log
NextSeqReused(log) == IF log = <<>> THEN 1 ELSE log[Len(log)].seq

NextSeq(log) == IF log = <<>> THEN 1 ELSE log[Len(log)].seq + 1

\* The assistant Message that answers the Turn of submission r
AssistantMessage(log, audio, r) ==
    [role |-> "assistant", seq |-> NextSeq(log), audio |-> audio,
     turn |-> r]

\* The push events of a Message and of an error
MessageEvent(msg) ==
    [type |-> "message", role |-> msg.role, seq |-> msg.seq,
     audio |-> msg.audio, turn |-> msg.turn]

ErrorEvent ==
    [type |-> "error", role |-> "none", seq |-> 0, audio |-> FALSE,
     turn |-> Null]

\* The backend answered the Turn of submission r: the Turn slot is cleared,
\* the {text, audio} response is sent, and the assistant Message is appended
\* to the log of the session and queued for its push stream.
BackendComplete(r) ==
    /\ reqs[r].st = "processing"
    /\ srvTurn' = [srvTurn EXCEPT ![reqs[r].sid] =
                      IF @ = r THEN Null ELSE @]
    /\ reqs' = [reqs EXCEPT ![r].st = "responded", ![r].res = "ok"]
    /\ IF reqs[r].sid \in srvSessions
       THEN \E audio \in BOOLEAN :
               LET msg == AssistantMessage(srvLog[reqs[r].sid], audio, r) IN
                  /\ srvLog' = [srvLog EXCEPT ![reqs[r].sid] = Append(@, msg)]
                  /\ srvQueue' = [srvQueue EXCEPT ![reqs[r].sid] =
                                     Append(@, MessageEvent(msg))]
       ELSE UNCHANGED <<srvLog, srvQueue>>
    /\ UNCHANGED <<handled,
                   sessionId, eventSource, isActive, mediaRecorder, audioChunks,
                   streams, media, recEvents, timers, initCall, endCalls,
                   srvSessions, srvCreated, delays, silence, utterances>>

\* The fetch of submission r rejects.
FetchRejects(r) ==
    /\ reqs[r].st = "sent"
    /\ reqs' = [reqs EXCEPT ![r].st = "responded", ![r].res = "network_error"]
    /\ UNCHANGED <<srvLog, srvQueue, handled,
                   sessionId, eventSource, isActive, mediaRecorder, audioChunks,
                   streams, media, recEvents, timers, initCall, endCalls,
                   srvSessions, srvCreated, srvTurn, delays, silence,
                   utterances>>

\* The body of a response carries text and audio
HasPayload(res) == res = "ok"

\* A rejected fetch is caught and reported: by the try/catch of
\* sendTextMessage, by nothing in the onloadend callback.
CatchesRejection(kind) == kind = "text"

\* sendTextMessage / reader.onloadend after the fetch: playAudio,
\* displayResponse, or the catch block
HandleResponse(r) ==
    /\ reqs[r].st = "responded"
    /\ LET rejected == reqs[r].res = "network_error"
           caught == rejected /\ CatchesRejection(reqs[r].kind) IN
          reqs' = [reqs EXCEPT ![r].st = "done",
                               ![r].shown = HasPayload(reqs[r].res),
                               ![r].reported = caught]
    /\ UNCHANGED <<srvLog, srvQueue, handled,
                   sessionId, eventSource, isActive, mediaRecorder, audioChunks,
                   streams, media, recEvents, timers, initCall, endCalls,
                   srvSessions, srvCreated, srvTurn, delays, silence,
                   utterances>>

\* -------------------------------------------------------------------- end()
EndOutcomes == {"ok", "server_error", "network_error"}

RemoveAt(seq, k) == SubSeq(seq, 1, k - 1) \o SubSeq(seq, k + 1, Len(seq))

\* The recording in progress on recorder m was stopped by end(), not by
\* stopRecording(): its utterance is partial.
CutShort(med, m) ==
    [med EXCEPT ![m].cut = IF media[m].rec = "recording"
                           THEN @ \cup {media[m].utt} ELSE @]

\* end() up to the fetch of session/${this.sessionId}/end: stopRecording(),
\* eventSource.close()
EndCall(size) ==
    /\ sessionId # Null
    /\ Len(endCalls) < MaxEndCalls
    /\ IF mediaRecorder # Null /\ media[mediaRecorder].rec = "recording"
       THEN /\ media' = CutShort(RecorderStopped(mediaRecorder), mediaRecorder)
            /\ recEvents' = recEvents \o RecorderStopEvents(mediaRecorder, size)
       ELSE UNCHANGED <<media, recEvents>>
    /\ IF eventSource # Null
       THEN /\ streams' = Collect([streams EXCEPT ![eventSource].rs = "closed"],
                                  Null)
            /\ eventSource' = Null
            /\ silence' = 0
       ELSE UNCHANGED <<streams, eventSource, silence>>
    /\ endCalls' = Append(endCalls, [sid |-> sessionId])
    /\ UNCHANGED <<srvLog, srvQueue, handled,
                   sessionId, isActive, mediaRecorder, audioChunks, timers,
                   initCall, reqs, srvSessions, srvCreated, srvTurn, delays,
                   utterances>>

\* mediaRecorder.stream.getTracks().forEach(track => track.stop()); a
\* recorder whose tracks all ended stops recording
TracksStopped(m) ==
    [media EXCEPT ![m].live = FALSE,
                  ![m].stops = Min(@ + 1, MaxStops),
                  ![m].rec = "inactive",
                  ![m].spans = SpansAtStop(m)]

\* SessionManager.end
SrvEnd(sid) == srvSessions \ {sid}

\* end() after the fetch, for the k-th suspended call: the tracks are
\* stopped and the fields cleared, or the catch block runs
EndResponse(k, outcome, size) ==
    /\ k \in 1..Len(endCalls)
    /\ endCalls' = RemoveAt(endCalls, k)
    /\ IF outcome = "network_error"
       THEN UNCHANGED <<sessionId, isActive, media, recEvents, srvSessions>>
       ELSE /\ srvSessions' = IF outcome = "ok" THEN SrvEnd(endCalls[k].sid)
                              ELSE srvSessions
            /\ IF mediaRecorder # Null
               THEN /\ media' = CutShort(TracksStopped(mediaRecorder),
                                         mediaRecorder)
                    /\ recEvents' =
                          IF media[mediaRecorder].rec = "recording"
                          THEN recEvents \o
                               RecorderStopEvents(mediaRecorder, size)
                          ELSE recEvents
               ELSE UNCHANGED <<media, recEvents>>
            /\ isActive' = FALSE
            /\ sessionId' = Null
    /\ UNCHANGED <<srvLog, srvQueue, handled,
                   eventSource, mediaRecorder, audioChunks, streams, timers,
                   initCall, reqs, srvCreated, srvTurn, delays, silence,
                   utterances>>

\* ---------------------------------------------------- handleServerMessage
\* How the server writes an event: with the fields where the interface lists
\* them ({type, role, content, audio}; {type: error, detail}), or where
\* handleServerMessage reads them ({type, data: {role, content, audio}};
\* {error}).
Shapes == {"flat", "nested"}

\* JSON.parse(event.data): nested says that data.data is an object, error
\* that data.error is set
Wire(ev, shape) ==
    [type |-> ev.type, seq |-> ev.seq, role |-> ev.role, audio |-> ev.audio,
     turn |-> ev.turn,
     nested |-> ev.type = "message" /\ shape = "nested",
     error |-> ev.type = "error" /\ shape = "nested"]

HeartbeatData ==
    [type |-> "heartbeat", seq |-> 0, role |-> "none", audio |-> FALSE,
     turn |-> Null,
     nested |-> FALSE, error |-> FALSE]

\* handleServerMessage(data): the calls it makes.  With data.data undefined
\* the read of message.role throws and the handler makes none.
HandleServerMessage(data) ==
    IF data.type = "message"
    THEN IF ~data.nested THEN <<>>
         ELSE IF data.role = "assistant"
              THEN <<"displayResponse">> \o
                   (IF data.audio THEN <<"playAudio">> ELSE <<>>)
              ELSE IF data.role = "user" THEN <<"displayUserMessage">>
              ELSE <<>>
    ELSE IF data.type = "heartbeat" THEN <<>>
    ELSE IF data.error THEN <<"showError">>
    ELSE <<>>

\* The events handled, after handleServerMessage(data) for session sid
Handle(sid, data) ==
    Append(handled, [sid |-> sid, data |-> data,
                     acts |-> HandleServerMessage(data)])

\* The server writes the next event queued for the session of EventSource
\* i on that stream; eventSource.onmessage parses and handles it.
PushDeliver(i, shape) ==
    /\ streams[i].rs = "open"
    /\ streams[i].sid \in srvSessions
    /\ srvQueue[streams[i].sid] # <<>>
    /\ srvQueue' = [srvQueue EXCEPT ![streams[i].sid] = Tail(@)]
    /\ handled' = Handle(streams[i].sid,
                         Wire(Head(srvQueue[streams[i].sid]), shape))
    /\ UNCHANGED <<srvLog,
                   sessionId, eventSource, isActive, mediaRecorder, audioChunks,
                   streams, media, recEvents, timers, initCall, endCalls, reqs,
                   srvSessions, srvCreated, srvTurn, delays, silence,
                   utterances>>

\* -------------------------------------------------------------- heartbeats
\* handleServerMessage({type: 'heartbeat'}) on EventSource i: it logs
HandleHeartbeat(i) ==
    /\ streams[i].rs = "open"
    /\ silence' = IF i = eventSource THEN 0 ELSE silence
    /\ handled' = IF HandleServerMessage(HeartbeatData) = <<>> THEN handled
                  ELSE Handle(streams[i].sid, HeartbeatData)
    /\ UNCHANGED <<srvLog, srvQueue,
                   sessionId, eventSource, isActive, mediaRecorder, audioChunks,
                   streams, media, recEvents, timers, initCall, endCalls, reqs,
                   srvSessions, srvCreated, srvTurn, delays, utterances>>

\* One heartbeat interval passes without a heartbeat on the current stream.
Tick ==
    /\ eventSource # Null
    /\ streams[eventSource].rs = "open"
    /\ silence <= SilenceLimit
    /\ silence' = silence + HeartbeatInterval
    /\ UNCHANGED <<srvLog, srvQueue, handled,
                   sessionId, eventSource, isActive, mediaRecorder, audioChunks,
                   streams, media, recEvents, timers, initCall, endCalls, reqs,
                   srvSessions, srvCreated, srvTurn, delays, utterances>>

\* ------------------------------------------------------------ specification
Next ==
    \/ InitializeCall
    \/ \E o \in CreateOutcomes : InitializeCreated(o)
    \/ \E o \in MediaOutcomes : InitializeMedia(o)
    \/ \E i \in StreamSlots : StreamOpen(i)
    \/ \E i \in StreamSlots : StreamDrop(i)
    \/ \E i \in StreamSlots : StreamFail(i)
    \/ ReconnectTimer
    \/ StartRecording
    \/ \E size \in ChunkSizes : StopRecording(size)
    \/ OnStop
    \/ \E r \in 1..Len(reqs) : ReaderLoadEnd(r)
    \/ SendTextMessage
    \/ \E r \in 1..Len(reqs) : ServerSubmit(r)
    \/ \E r \in 1..Len(reqs) : BackendComplete(r)
    \/ \E r \in 1..Len(reqs) : FetchRejects(r)
    \/ \E r \in 1..Len(reqs) : HandleResponse(r)
    \/ \E size \in ChunkSizes : EndCall(size)
    \/ \E k \in 1..MaxEndCalls, o \in EndOutcomes, size \in ChunkSizes :
          EndResponse(k, o, size)
    \/ \E i \in StreamSlots, shape \in Shapes : PushDeliver(i, shape)
    \/ \E i \in StreamSlots : HandleHeartbeat(i)
    \/ Tick

\* The whole system.  The specifications below restrict it to the operations
\* a group of properties is about, which keeps each within reach of TLC.
Spec == Init /\ [][Next]_vars

\* Submissions of a client that initializes without failure: capture,
\* text and audio input, and the SessionManager serializing the Turns.
NextTurn ==
    \/ srvCreated < MaxTurnSessions /\ InitializeCall
    \/ InitializeCreated("ok")
    \/ InitializeMedia("granted")
    \/ utterances < MaxTurnUtterances /\ StartRecording
    \/ StopRecording(1)
    \/ OnStop
    \/ \E r \in 1..Len(reqs) : ReaderLoadEnd(r)
    \/ SendTextMessage
    \/ \E r \in 1..Len(reqs) : ServerSubmit(r)
    \/ \E r \in 1..Len(reqs) : BackendComplete(r)
    \/ \E r \in 1..Len(reqs) : FetchRejects(r)
    \/ \E r \in 1..Len(reqs) : HandleResponse(r)

SpecTurn == Init /\ [][NextTurn]_vars

\* The life cycle of the client: initialize() and end() with every outcome
\* of their requests, and capture up to the request of an audio submission.
NextLife ==
    \/ srvCreated < MaxLifeSessions /\ InitializeCall
    \/ \E o \in CreateOutcomes : InitializeCreated(o)
    \/ \E o \in MediaOutcomes : InitializeMedia(o)
    \/ StartRecording
    \/ \E size \in ChunkSizes : StopRecording(size)
    \/ OnStop
    \/ \E r \in 1..Len(reqs) : ReaderLoadEnd(r)
    \/ \E size \in ChunkSizes : EndCall(size)
    \/ \E k \in 1..MaxEndCalls, o \in EndOutcomes, size \in ChunkSizes :
          EndResponse(k, o, size)

SpecLife == Init /\ [][NextLife]_vars

\* The push stream of a client that initializes without failure: loss of
\* the stream, reconnection and end().
NextConn ==
    \/ InitializeCall
    \/ InitializeCreated("ok")
    \/ InitializeMedia("granted")
    \/ \E i \in StreamSlots : StreamOpen(i)
    \/ \E i \in StreamSlots : StreamDrop(i)
    \/ \E i \in StreamSlots : StreamFail(i)
    \/ ReconnectTimer
    \/ EndCall(1)
    \/ \E k \in 1..MaxEndCalls : EndResponse(k, "ok", 1)

SpecConn == Init /\ [][NextConn]_vars

\* Heartbeats on the push stream of a client that initializes without
\* failure.
NextBeat ==
    \/ InitializeCall
    \/ InitializeCreated("ok")
    \/ InitializeMedia("granted")
    \/ \E i \in StreamSlots : StreamOpen(i)
    \/ \E i \in StreamSlots : StreamDrop(i)
    \/ \E i \in StreamSlots : StreamFail(i)
    \/ ReconnectTimer
    \/ \E i \in StreamSlots : HandleHeartbeat(i)
    \/ Tick

SpecBeat == Init /\ [][NextBeat]_vars

\* SessionManager: session sid, idle beyond the timeout, is destroyed.
SrvIdleTimeout(sid) ==
    /\ sid \in srvSessions
    /\ srvTurn[sid] = Null
    /\ srvSessions' = SrvEnd(sid)
    /\ UNCHANGED <<srvLog, srvQueue, handled,
                   sessionId, eventSource, isActive, mediaRecorder, audioChunks,
                   streams, media, recEvents, timers, initCall, endCalls, reqs,
                   srvCreated, srvTurn, delays, silence, utterances>>

\* SessionManager: the backend did not answer the Turn of submission r
\* within the ceiling: the Turn is failed, its slot freed, and the client
\* notified by the response and by an error event on the push stream.
BackendTimeout(r) ==
    /\ reqs[r].st = "processing"
    /\ srvTurn' = [srvTurn EXCEPT ![reqs[r].sid] =
                      IF @ = r THEN Null ELSE @]
    /\ reqs' = [reqs EXCEPT ![r].st = "responded",
                            ![r].res = "ProcessingTimeout"]
    /\ srvQueue' = [srvQueue EXCEPT ![reqs[r].sid] =
                       IF reqs[r].sid \in srvSessions
                       THEN Append(@, ErrorEvent) ELSE @]
    /\ UNCHANGED <<srvLog, handled,
                   sessionId, eventSource, isActive, mediaRecorder, audioChunks,
                   streams, media, recEvents, timers, initCall, endCalls,
                   srvSessions, srvCreated, delays, silence, utterances>>

\* Submissions against a SessionManager that destroys idle sessions and
\* fails Turns the backend does not answer in time.
NextFault ==
    \/ NextTurn
    \/ \E sid \in SessionIds : SrvIdleTimeout(sid)
    \/ \E r \in 1..Len(reqs) : BackendTimeout(r)

SpecFault == Init /\ [][NextFault]_vars

\* Capture of a client that initializes without failure: utterances are
\* recorded one after the other and submitted as audio.
NextCapture ==
    \/ srvCreated < MaxTurnSessions /\ InitializeCall
    \/ InitializeCreated("ok")
    \/ InitializeMedia("granted")
    \/ StartRecording
    \/ \E size \in ChunkSizes : StopRecording(size)
    \/ OnStop
    \/ \E r \in 1..Len(reqs) : ReaderLoadEnd(r)
    \/ \E r \in 1..Len(reqs) : ServerSubmit(r)
    \/ \E r \in 1..Len(reqs) : BackendComplete(r)
    \/ \E r \in 1..Len(reqs) : HandleResponse(r)

SpecCapture == Init /\ [][NextCapture]_vars

\* A client that initializes without failure and sends texts; the server
\* answers them or fails their Turns, and pushes events on the stream, which
\* may drop, fail and be reconnected.
NextPush ==
    \/ srvCreated < MaxTurnSessions /\ InitializeCall
    \/ InitializeCreated("ok")
    \/ InitializeMedia("granted")
    \/ \E i \in StreamSlots : StreamOpen(i)
    \/ \E i \in StreamSlots : StreamDrop(i)
    \/ \E i \in StreamSlots : StreamFail(i)
    \/ ReconnectTimer
    \/ SendTextMessage
    \/ \E r \in 1..Len(reqs) : ServerSubmit(r)
    \/ \E r \in 1..Len(reqs) : BackendComplete(r)
    \/ \E r \in 1..Len(reqs) : BackendTimeout(r)
    \/ \E r \in 1..Len(reqs) : HandleResponse(r)
    \/ \E i \in StreamSlots, shape \in Shapes : PushDeliver(i, shape)
    \/ \E i \in StreamSlots : HandleHeartbeat(i)

SpecPush == Init /\ [][NextPush]_vars

\* Texts sent by a client that initializes without failure, to a
\* SessionManager that answers, rejects or fails their Turns and destroys
\* idle sessions.
NextLog ==
    \/ srvCreated < MaxTurnSessions /\ InitializeCall
    \/ InitializeCreated("ok")
    \/ InitializeMedia("granted")
    \/ SendTextMessage
    \/ \E r \in 1..Len(reqs) : ServerSubmit(r)
    \/ \E r \in 1..Len(reqs) : BackendComplete(r)
    \/ \E r \in 1..Len(reqs) : BackendTimeout(r)
    \/ \E sid \in SessionIds : SrvIdleTimeout(sid)
    \/ \E r \in 1..Len(reqs) : HandleResponse(r)

SpecLog == Init /\ [][NextLog]_vars

\* Capture of the audio trace by a client that initializes without failure:
\* frames arrive while recordings are started and stopped.
NextVad ==
    \/ srvCreated < MaxTurnSessions /\ InitializeCall
    \/ InitializeCreated("ok")
    \/ InitializeMedia("granted")
    \/ \E m \in 1..MaxMedia : AudioFrame(m)
    \/ StartRecording
    \/ StopRecording(1)
    \/ OnStop

SpecVad == Init /\ [][NextVad]_vars

\* One session from initialize() to end(), with a push stream that may
\* drop, fail and be reconnected.
NextEnd ==
    \/ srvCreated < MaxLifeSessions /\ InitializeCall
    \/ InitializeCreated("ok")
    \/ InitializeMedia("granted")
    \/ \E i \in StreamSlots : StreamOpen(i)
    \/ \E i \in StreamSlots : StreamDrop(i)
    \/ \E i \in StreamSlots : StreamFail(i)
    \/ ReconnectTimer
    \/ EndCall(1)
    \/ \E k \in 1..MaxEndCalls : EndResponse(k, "ok", 1)

SpecEnd == Init /\ [][NextEnd]_vars

\* One session from initialize() to end(), with texts and utterances
\* submitted and answered meanwhile.
NextLate ==
    \/ srvCreated < MaxLifeSessions /\ InitializeCall
    \/ InitializeCreated("ok")
    \/ InitializeMedia("granted")
    \/ utterances < MaxTurnUtterances /\ StartRecording
    \/ StopRecording(1)
    \/ OnStop
    \/ \E r \in 1..Len(reqs) : ReaderLoadEnd(r)
    \/ SendTextMessage
    \/ \E r \in 1..Len(reqs) : ServerSubmit(r)
    \/ \E r \in 1..Len(reqs) : BackendComplete(r)
    \/ \E r \in 1..Len(reqs) : HandleResponse(r)
    \/ EndCall(1)
    \/ \E k \in 1..MaxEndCalls : EndResponse(k, "ok", 1)

SpecLate == Init /\ [][NextLate]_vars

\* ------------------------------------------------------------------ claims
Reqs == 1..Len(reqs)
Media == 1..Len(media)

C2_EndIdempotent == \A m \in Media : media[m].stops <= 1

\* C3: release on end is unconditional: whenever an end() call finishes on a
\* client that holds a live input stream, whatever became of the end-session
\* request, the tracks are stopped and the client is not active.
C3_ReleaseUnconditional ==
    [][(Len(endCalls') < Len(endCalls)
           /\ mediaRecorder # Null /\ media[mediaRecorder].live)
        => (~media'[mediaRecorder].live /\ ~isActive')]_vars

\* C4: an input stream acquired by a capture start-up that then failed (no
\* recorder could be constructed on it) is not left held.
C4_CaptureFailureReleases ==
    \A m \in Media : media[m].rec = "none" => ~media[m].live

\* C5: reconnection is bounded: the consecutive reconnection attempts made
\* while the push stream does not come back never exceed the attempt budget.
C5_ReconnectBounded == Len(delays) <= AttemptBudget

\* C6: over a run of consecutive failed reconnection attempts the delays
\* follow exponential backoff up to a cap: each delay is double the previous
\* one until the cap, above the first delay, is reached.
C6_BackoffOrdering ==
    \E cap \in {ReconnectDelayMs * k : k \in 2..8} :
        \A i \in 1..Len(delays) :
            /\ delays[i] <= cap
            /\ i > 1 => delays[i] = Min(2 * delays[i - 1], cap)

\* C7: when the current push stream is open and has delivered no heartbeat
\* for longer than 3 heartbeat intervals, the client has declared the
\* connection lost and begun reconnection.
C7_HeartbeatLossDetected ==
    (/\ eventSource # Null
     /\ streams[eventSource].rs = "open"
     /\ silence > SilenceLimit)
        => timers # <<>>

\* C8: every stream opened by a reconnection attempt is bound to a session
\* id, the one of the stream whose loss started the reconnection.
C8_ReconnectSameSession ==
    \A i \in StreamSlots :
        streams[i].rs # "none" /\ streams[i].reconnect =>
            streams[i].sid # Null /\ streams[i].sid = streams[i].lost

\* C9: every request issued for a text or audio input carries the session
\* id the client holds; none is issued while the client holds none.
C9_NoRequestWithoutSession ==
    \A r \in Reqs : reqs[r].st = "sent" => reqs[r].sid # Null

\* C10: an initialize() whose create request failed, by a network error or
\* by a response without session_id, returns false, leaves the client not
\* active and acquires no input stream.
C10_CreateFailureReported ==
    initCall.create \in {"error_json", "network_error"}
        /\ initCall.pc = "idle"
        => initCall.result = "false" /\ ~isActive /\ media = <<>>

\* C11: a submission answered with SessionNotFound, once handled by the
\* client, has been reported to the user (showError).
C11_SessionNotFoundSurfaced ==
    \A r \in Reqs :
        reqs[r].st = "done" /\ reqs[r].res = "SessionNotFound"
            => reqs[r].reported

\* The request of submission r has reached the server.
Arrived(r) ==
    reqs[r].st \in {"processing", "responded", "done"}
        /\ reqs[r].res # "network_error"

\* C12: the audio submissions reach the server in capture order: no
\* utterance has reached it while one captured before it has not.
C12_UtterancesInCaptureOrder ==
    \A r, q \in Reqs :
        r < q /\ reqs[r].kind = "audio" /\ reqs[q].kind = "audio"
            /\ Arrived(q) => Arrived(r)

\* The utterances whose recording end() cut short
CutUtterances == UNION {media[m].cut : m \in Media}

\* C13: a partial utterance at shutdown is discarded: no audio request is
\* issued whose blob holds audio of a recording that end() cut short.
C13_PartialUtteranceDiscarded ==
    \A r \in Reqs :
        reqs[r].kind = "audio" /\ reqs[r].st # "reading" =>
            \A i \in 1..Len(reqs[r].blob) :
                reqs[r].blob[i] \notin CutUtterances

\* The client is closed: an end() ran to its end, the tracks are stopped, no
\* session id is held and no initialize() has been called since.
Closed ==
    /\ sessionId = Null
    /\ endCalls = <<>>
    /\ initCall.pc = "idle"
    /\ mediaRecorder # Null
    /\ ~media[mediaRecorder].live

\* C14: Closed is absorbing: while the client is closed no recording is
\* started, no request of an input is issued and no push stream is opened.
C14_ClosedAbsorbing ==
    [][Closed /\ Closed' =>
          /\ \A m \in 1..Len(media') :
                media'[m].rec = "recording" => media[m].rec = "recording"
          /\ \A r \in 1..Len(reqs') :
                reqs'[r].st = "sent" => r <= Len(reqs) /\ reqs[r].st = "sent"
          /\ \A i \in StreamSlots :
                streams'[i].rs \in {"connecting", "open"}
                    => streams[i].rs \in {"connecting", "open"}]_vars

\* handleServerMessage made the call act for the handled event h.
Did(h, act) == \E j \in 1..Len(h.acts) : h.acts[j] = act

\* The sequence numbers displayResponse showed for session sid, in order
DisplayedSeqs(sid) ==
    LET Shown(h) == h.sid = sid /\ Did(h, "displayResponse")
        sel == SelectSeq(handled, Shown)
    IN [k \in 1..Len(sel) |-> sel[k].data.seq]

\* The sequence numbers of the Messages of session sid the server has
\* pushed, in the order it produced them
PushedSeqs(sid) ==
    LET IsMessage(ev) == ev.type = "message"
        queued == Len(SelectSeq(srvQueue[sid], IsMessage))
    IN [k \in 1..(Len(srvLog[sid]) - queued) |-> srvLog[sid][k].seq]

\* C16: push delivery is FIFO and loses nothing: for every live session the
\* assistant Messages the client displayed are exactly the Messages the
\* server pushed, in the order it produced them, also when the stream was
\* lost and reconnected in between.
C16_PushFifo ==
    \A sid \in srvSessions : DisplayedSeqs(sid) = PushedSeqs(sid)

\* C17: every error event of the shape {type: error, detail} that arrived on
\* the push stream was surfaced by showError.
C17_PushErrorSurfaced ==
    \A k \in 1..Len(handled) :
        handled[k].data.type = "error" /\ ~handled[k].data.error
            => Did(handled[k], "showError")

\* C18: every assistant message event of the shape {type: message, role,
\* content, audio} that arrived on the push stream was displayed, and played
\* when it carries audio; a heartbeat is neither displayed nor played.
C18_AssistantMessageShown ==
    /\ \A k \in 1..Len(handled) :
          /\ handled[k].data.type = "message"
          /\ handled[k].data.role = "assistant"
          /\ ~handled[k].data.nested
          => /\ Did(handled[k], "displayResponse")
             /\ handled[k].data.audio => Did(handled[k], "playAudio")
    /\ HandleServerMessage(HeartbeatData) = <<>>

\* C19: a Turn failed with ProcessingTimeout has freed the Turn slot, and
\* once the client has handled the response and the error event of the
\* failure, showError has told the user.
C19_ProcessingTimeoutNotified ==
    \A r \in Reqs :
        reqs[r].res = "ProcessingTimeout" =>
            /\ srvTurn[reqs[r].sid] # r
            /\ reqs[r].st = "done" /\ srvQueue[reqs[r].sid] = <<>>
                  /\ reqs[r].sid \in srvSessions
               => \/ reqs[r].reported
                  \/ \E k \in 1..Len(handled) :
                        /\ handled[k].sid = reqs[r].sid
                        /\ Did(handled[k], "showError")

\* C20: in every session log the sequence numbers are strictly increasing
\* and gapless: each Message has the number after that of the Message
\* before it.
C20_SequenceGapless ==
    \A sid \in SessionIds :
        \A k \in 1..(Len(srvLog[sid]) - 1) :
            srvLog[sid][k + 1].seq = srvLog[sid][k].seq + 1

\* A session log holds two Messages.
C20_Witness == \E sid \in SessionIds : Len(srvLog[sid]) >= 2

\* C21: with a minimum speech duration of MinSpeechMs and a trailing-silence
\* timeout of TrailingSilenceMs, the trace with energy above the threshold
\* for HighMs and below it for LowMs yields exactly one utterance, which
\* spans the high-energy region.
C21_OneUtterancePerSpeech ==
    \A m \in Media :
        /\ media[m].t = HighMs + LowMs
        /\ HighMs >= MinSpeechMs /\ LowMs >= TrailingSilenceMs
        => /\ Len(media[m].spans) = 1
           /\ media[m].spans[1].from <= MinSpeechMs
           /\ media[m].spans[1].to >= HighMs
           /\ media[m].spans[1].to <= HighMs + TrailingSilenceMs

\* An EventSource that is not closed
LiveStreams == {i \in StreamSlots : streams[i].rs \in {"connecting", "open"}}

\* C22: once end() has finished (no end() is suspended and no session id is
\* held) the client has no push stream that is not closed, whatever
\* reconnect timer was pending when end() was called.
C22_NoStreamAfterEnd ==
    sessionId = Null /\ endCalls = <<>> => LiveStreams = {}

\* The input streams whose tracks have not been stopped
LiveMedia == {m \in Media : media[m].live}

\* C23: the client holds at most one push stream that is not closed and at
\* most one live input stream, and every session it created and that the
\* server has not ended is its current session.
C23_SingleStreamAndDevice ==
    /\ Cardinality(LiveStreams) <= 1
    /\ Cardinality(LiveMedia) <= 1
    /\ \A sid \in srvSessions : sid = sessionId

\* C24: an active client holds a session id, a push stream and a media
\* recorder; a client without session id is not active.
C24_ActiveImpliesResources ==
    /\ isActive =>
          sessionId # Null /\ eventSource # Null /\ mediaRecorder # Null
    /\ sessionId = Null => ~isActive

\* C25: when initialize() has returned false the client holds no session
\* id, has no push stream that is not closed, and no session is alive on
\* the server.
C25_FailedInitLeavesNothing ==
    initCall.pc = "idle" /\ initCall.result = "false"
        => sessionId = Null /\ LiveStreams = {} /\ srvSessions = {}

\* The times the response to submission r was displayed: by the code after
\* the fetch (data.text) and by handleServerMessage for its push Message
Renders(r) ==
    (IF reqs[r].shown THEN 1 ELSE 0)
    + Cardinality({k \in 1..Len(handled) :
                      /\ handled[k].data.turn = r
                      /\ Did(handled[k], "displayResponse")})

\* C26: the response to a submitted input is displayed at most once, also
\* when the server sends it both in the answer to the request and as a push
\* Message.
C26_ResponseRenderedOnce == \A r \in Reqs : Renders(r) <= 1

\* C27: the request of an audio submission targets the session that was
\* current when the recording's stop event handed the blob over: never no
\* session, never another one.
C27_AudioToSessionAtStop ==
    \A r \in Reqs :
        reqs[r].kind = "audio" /\ reqs[r].st # "reading"
            => reqs[r].sid = reqs[r].atCall

\* end() has been called for session sid: a call is suspended at its fetch,
\* or one has finished and cleared the session id.
EndCalledFor(sid) ==
    \/ \E k \in 1..Len(endCalls) : endCalls[k].sid = sid
    \/ sessionId = Null

\* C28: once end() has been called no response is displayed or played: the
\* answer to a submission that was in flight is not rendered.
C28_NoRenderAfterEnd ==
    [][\A r \in Reqs :
          ~reqs[r].shown /\ reqs'[r].shown => ~EndCalledFor(reqs[r].atCall)]_vars

\* C29: a submission whose request failed has been reported by showError
\* once the client is done with it, an audio submission as a text one.
C29_FailedSubmissionReported ==
    \A r \in Reqs :
        reqs[r].st = "done" /\ reqs[r].res = "network_error"
            => reqs[r].reported

\* C30: the blob submitted for an utterance holds exactly the audio captured
\* by that recording: all of it, and none of another recording.
C30_ChunksOfOwnUtterance ==
    \A r \in Reqs :
        reqs[r].kind = "audio" =>
            /\ Len(reqs[r].blob) = reqs[r].captured
            /\ \A i \in 1..Len(reqs[r].blob) : reqs[r].blob[i] = reqs[r].utt

\* Two utterances that captured audio have been handed over, the second
\* one recorded after the first.
C30_Witness ==
    \E r, q \in Reqs :
        /\ r < q
        /\ reqs[r].kind = "audio" /\ reqs[r].captured > 0
        /\ reqs[q].kind = "audio" /\ reqs[q].captured > 0
        /\ reqs[r].utt < reqs[q].utt

====
